---- MODULE Spec2Model ----
(***************************************************************************)
(* The retrieval pipeline of multi-agent.py: the four LangGraph nodes      *)
(* Rephrase -> Retrieve -> Answer -> Summarize, the tool selection inside  *)
(* retrieve, the safe tool wrapper and rank_results; and the Chainlit       *)
(* message handler handle_user_input that runs the graph and displays its  *)
(* result through stream_response.                                         *)
(*                                                                         *)
(* Python strings are sequences of one-character strings, so that          *)
(* str.lower, the "in" operator, the regular expressions and the f-string  *)
(* concatenations are computed character by character.  The two characters *)
(* that cannot be written in a string here, U+0060 and U+2192, are the     *)
(* atoms "<backtick>" and "<arrow>".                                       *)
(***************************************************************************)
EXTENDS Integers, Sequences, FiniteSets, TLC

VARIABLES
    state,       \* the AgentState dict threaded through the graph
    pc,          \* the node the graph runs next, or "END"; in the handler and
                 \* ranker specifications, the statement that runs next
    trace,       \* the nodes that have run, in order
    toolset,     \* retrieve's local toolset once selection is done
    llm_calls,   \* the llm_base.invoke calls made so far, with their outcome
    tool_calls,  \* the safe_tool_call calls made so far, with their outcome
    sink,        \* what the Chainlit client has received, in order
    rank_args,   \* the arguments of a direct call of rank_results
    ranking      \* what that call returned

vars == <<state, pc, trace, toolset, llm_calls, tool_calls, sink, rank_args, ranking>>

(***************************************************************************)
(* String literals of the program.                                         *)
(***************************************************************************)
\* tools key, line 64
KeyConfluence ==
    <<"c", "o", "n", "f", "l", "u", "e", "n", "c", "e">>
\* tools key, line 65
KeyBitbucket ==
    <<"b", "i", "t", "b", "u", "c", "k", "e", "t">>
\* tools key, line 66
KeyPostgresql ==
    <<"p", "o", "s", "t", "g", "r", "e", "s", "q", "l">>
\* tools key, line 67
KeyGraphql ==
    <<"g", "r", "a", "p", "h", "q", "l">>
\* tools key, line 68
KeyFieldMapping ==
    <<"f", "i", "e", "l", "d", " ", "m", "a", "p", "p", "i", "n", "g">>
\* def search_confluence, line 30
FnSearchConfluence ==
    <<"s", "e", "a", "r", "c", "h", "_", "c", "o", "n", "f", "l", "u", "e",
      "n", "c", "e">>
\* def search_bitbucket, line 36
FnSearchBitbucket ==
    <<"s", "e", "a", "r", "c", "h", "_", "b", "i", "t", "b", "u", "c", "k",
      "e", "t">>
\* def query_postgres, line 40
FnQueryPostgres ==
    <<"q", "u", "e", "r", "y", "_", "p", "o", "s", "t", "g", "r", "e", "s">>
\* def query_graphql, line 46
FnQueryGraphql ==
    <<"q", "u", "e", "r", "y", "_", "g", "r", "a", "p", "h", "q", "l">>
\* def search_field_mapping, line 52
FnSearchFieldMapping ==
    <<"s", "e", "a", "r", "c", "h", "_", "f", "i", "e", "l", "d", "_", "m",
      "a", "p", "p", "i", "n", "g">>
WordPipeline ==
    <<"p", "i", "p", "e", "l", "i", "n", "e">>
WordOrders ==
    <<"o", "r", "d", "e", "r", "s">>
WordUser ==
    <<"u", "s", "e", "r">>
WordUserId ==
    <<"u", "s", "e", "r", "_", "i", "d">>
WordOrderStatus ==
    <<"o", "r", "d", "e", "r", "_", "s", "t", "a", "t", "u", "s">>
ConfluenceFound ==
    <<"C", "o", "n", "f", "l", "u", "e", "n", "c", "e", ":", " ", "F", "o",
      "u", "n", "d", " ", "C", "I", "/", "C", "D", " ", "p", "i", "p", "e",
      "l", "i", "n", "e", " ", "d", "o", "c", "s", ":", " ", "h", "t", "t",
      "p", "s", ":", "/", "/", "c", "o", "n", "f", "l", "u", "e", "n", "c",
      "e", ".", "m", "y", "c", "o", "r", "p", ".", "l", "o", "c", "a", "l",
      "/", "p", "a", "g", "e", "s", "/", "v", "i", "e", "w", "p", "a", "g",
      "e", ".", "a", "c", "t", "i", "o", "n", "?", "p", "a", "g", "e", "I",
      "d", "=", "1", "2", "3", "4", "5", "6">>
ConfluenceNone ==
    <<"C", "o", "n", "f", "l", "u", "e", "n", "c", "e", ":", " ", "N", "o",
      " ", "d", "o", "c", "s", " ", "f", "o", "u", "n", "d", " ", "f", "o",
      "r", " ", "'">>
BitbucketFound ==
    <<"B", "i", "t", "b", "u", "c", "k", "e", "t", ":", " ", "F", "o", "u",
      "n", "d", " ", "m", "a", "t", "c", "h", "i", "n", "g", " ", "r", "e",
      "p", "o", " ", "<backtick>", "d", "e", "v", "o", "p", "s", "-", "s", "c", "r",
      "i", "p", "t", "s", "<backtick>", " ", "w", "i", "t", "h", " ", "f", "i", "l",
      "e", " ", "<backtick>", "d", "e", "p", "l", "o", "y", ".", "y", "m", "l", "<backtick>",
      " ", "f", "o", "r", " ", "q", "u", "e", "r", "y", " ", "'">>
PostgresFound ==
    <<"P", "o", "s", "t", "g", "r", "e", "S", "Q", "L", ":", " ", "S", "E",
      "L", "E", "C", "T", " ", "*", " ", "F", "R", "O", "M", " ", "o", "r",
      "d", "e", "r", "s", " ", "W", "H", "E", "R", "E", " ", "s", "t", "a",
      "t", "u", "s", " ", "=", " ", "'", "p", "e", "n", "d", "i", "n", "g",
      "'", ";", " ", "<arrow>", " ", "1", "3", " ", "r", "o", "w", "s">>
PostgresNone ==
    <<"P", "o", "s", "t", "g", "r", "e", "S", "Q", "L", ":", " ", "N", "o",
      " ", "m", "a", "t", "c", "h", "i", "n", "g", " ", "r", "o", "w", "s",
      " ", "f", "o", "r", " ", "'">>
GraphqlFound ==
    <<"G", "r", "a", "p", "h", "Q", "L", ":", " ", "Q", "u", "e", "r", "i",
      "e", "d", " ", "<backtick>", "g", "e", "t", "U", "s", "e", "r", "(", "i", "d",
      ")", "<backtick>", " ", "<arrow>", " ", "r", "e", "t", "u", "r", "n", "e", "d", " ",
      "u", "s", "e", "r", " ", "p", "r", "o", "f", "i", "l", "e", " ", "o",
      "b", "j", "e", "c", "t">>
GraphqlNone ==
    <<"G", "r", "a", "p", "h", "Q", "L", ":", " ", "N", "o", " ", "m", "a",
      "t", "c", "h", "i", "n", "g", " ", "q", "u", "e", "r", "y", " ", "f",
      "o", "r", " ", "'">>
FieldMappingUserId ==
    <<"F", "i", "e", "l", "d", " ", "M", "a", "p", "p", "i", "n", "g", ":",
      " ", "F", "o", "u", "n", "d", " ", "f", "i", "e", "l", "d", " ", "m",
      "a", "p", "p", "i", "n", "g", " ", "f", "o", "r", " ", "<backtick>", "u", "s",
      "e", "r", "_", "i", "d", "<backtick>", " ", "t", "o", " ", "<backtick>", "u", "s", "e",
      "r", "_", "p", "r", "o", "f", "i", "l", "e", ".", "i", "d", "<backtick>">>
FieldMappingOrderStatus ==
    <<"F", "i", "e", "l", "d", " ", "M", "a", "p", "p", "i", "n", "g", ":",
      " ", "F", "o", "u", "n", "d", " ", "f", "i", "e", "l", "d", " ", "m",
      "a", "p", "p", "i", "n", "g", " ", "f", "o", "r", " ", "<backtick>", "o", "r",
      "d", "e", "r", "_", "s", "t", "a", "t", "u", "s", "<backtick>", " ", "t", "o",
      " ", "<backtick>", "o", "r", "d", "e", "r", "_", "s", "t", "a", "t", "u", "s",
      "_", "c", "o", "d", "e", "<backtick>">>
FieldMappingNone ==
    <<"F", "i", "e", "l", "d", " ", "M", "a", "p", "p", "i", "n", "g", ":",
      " ", "N", "o", " ", "m", "a", "p", "p", "i", "n", "g", "s", " ", "f",
      "o", "u", "n", "d", " ", "f", "o", "r", " ", "'">>
QuoteEnd ==
    <<"'">>
QuoteDotEnd ==
    <<"'", ".">>
SummaryLabel ==
    <<"S", "u", "m", "m", "a", "r", "y", ":", " ">>
Ellipsis ==
    <<".", ".", ".">>
ErrorWhileCalling ==
    <<"E", "r", "r", "o", "r", " ", "w", "h", "i", "l", "e", " ", "c", "a",
      "l", "l", "i", "n", "g", " ">>
FullStop ==
    <<".">>
WordError ==
    <<"e", "r", "r", "o", "r">>
RephraseFailed ==
    <<"U", "n", "a", "b", "l", "e", " ", "t", "o", " ", "r", "e", "p", "h",
      "r", "a", "s", "e", " ", "t", "h", "e", " ", "q", "u", "e", "s", "t",
      "i", "o", "n", ".">>
RetrievalFailed ==
    <<"R", "e", "t", "r", "i", "e", "v", "a", "l", " ", "f", "a", "i", "l",
      "e", "d", ".">>
AnswerFailed ==
    <<"U", "n", "a", "b", "l", "e", " ", "t", "o", " ", "g", "e", "n", "e",
      "r", "a", "t", "e", " ", "a", "n", " ", "a", "n", "s", "w", "e", "r",
      ".">>
SummarizeFailed ==
    <<"U", "n", "a", "b", "l", "e", " ", "t", "o", " ", "s", "u", "m", "m",
      "a", "r", "i", "z", "e", " ", "t", "h", "e", " ", "a", "n", "s", "w",
      "e", "r", ".">>
SearchInAll ==
    <<"s", "e", "a", "r", "c", "h", " ", "i", "n", " ", "a", "l", "l">>
WordSearch ==
    <<"s", "e", "a", "r", "c", "h">>
WordOnly ==
    <<"o", "n", "l", "y">>
WordIn ==
    <<"i", "n">>
WordAnd ==
    <<"a", "n", "d">>
NameGraphQL ==
    <<"G", "r", "a", "p", "h", "Q", "L">>
NameJira ==
    <<"j", "i", "r", "a">>
SearchInPrefix ==
    <<"s", "e", "a", "r", "c", "h", " ", "i", "n", " ">>
SearchOnlyInPrefix ==
    <<"s", "e", "a", "r", "c", "h", " ", "o", "n", "l", "y", " ", "i", "n",
      " ">>
AndJoin ==
    <<" ", "a", "n", "d", " ">>
CommaJoin ==
    <<",", " ">>
AboutBitbucket ==
    <<" ", "a", "b", "o", "u", "t", " ", "b", "i", "t", "b", "u", "c", "k",
      "e", "t">>
AllThenNames ==
    <<"S", "e", "a", "r", "c", "h", " ", "i", "n", " ", "A", "L", "L", " ",
      "c", "o", "n", "f", "l", "u", "e", "n", "c", "e", " ", "a", "n", "d",
      " ", "j", "i", "r", "a">>
ScopedThenAll ==
    <<"s", "e", "a", "r", "c", "h", " ", "o", "n", "l", "y", " ", "i", "n",
      " ", "G", "r", "a", "p", "h", "Q", "L", " ", "t", "h", "e", "n", " ",
      "s", "e", "a", "r", "c", "h", " ", "i", "n", " ", "a", "l", "l">>
OverlappingNames ==
    <<"f", "i", "e", "l", "d", " ", "m", "a", "p", "p", "i", "n", "g", "r",
      "a", "p", "h", "q", "l">>
OrdersQuestion ==
    <<"W", "h", "a", "t", " ", "i", "s", " ", "t", "h", "e", " ", "s", "t",
      "a", "t", "u", "s", " ", "o", "f", " ", "o", "r", "d", "e", "r", "s",
      "?">>
RawScoped ==
    <<" ", " ", "s", "e", "a", "r", "c", "h", " ", "o", "n", "l", "y", " ",
      "i", "n", " ", "g", "r", "a", "p", "h", "q", "l", " ">>
ShortAnswer ==
    <<"1", "3", " ", "o", "r", "d", "e", "r", "s", " ", "a", "r", "e", " ",
      "p", "e", "n", "d", "i", "n", "g", ".">>
LongAnswerUnit ==
    <<"p", "e", "n", "d", "i", "n", "g", " ", "o", "r", "d", "e", "r", " ">>

(***************************************************************************)
(* Character classes and the string operations the program uses.           *)
(***************************************************************************)
UpperCase ==
    <<"A", "B", "C", "D", "E", "F", "G", "H", "I", "J", "K", "L", "M",
      "N", "O", "P", "Q", "R", "S", "T", "U", "V", "W", "X", "Y", "Z">>
LowerCase ==
    <<"a", "b", "c", "d", "e", "f", "g", "h", "i", "j", "k", "l", "m",
      "n", "o", "p", "q", "r", "s", "t", "u", "v", "w", "x", "y", "z">>
Digits == {"0", "1", "2", "3", "4", "5", "6", "7", "8", "9"}

\* regex \s
IsSpace(c) == c \in {" ", "\t", "\n"}
\* regex \w
IsWord(c) ==
    \/ c \in Digits \cup {"_"}
    \/ \E i \in 1..Len(LowerCase) : c = LowerCase[i] \/ c = UpperCase[i]

LowerChar(c) ==
    IF \E i \in 1..Len(UpperCase) : UpperCase[i] = c
    THEN LowerCase[CHOOSE i \in 1..Len(UpperCase) : UpperCase[i] = c]
    ELSE c
\* str.lower()
Lower(s) == [i \in 1..Len(s) |-> LowerChar(s[i])]

\* s[i:].startswith(p), i counted from 1
StartsAt(s, p, i) == i + Len(p) - 1 <= Len(s) /\ SubSeq(s, i, i + Len(p) - 1) = p
\* p in s
Contains(s, p) == \E i \in 1..(Len(s) - Len(p) + 1) : StartsAt(s, p, i)
\* s[:n]
Take(s, n) == SubSeq(s, 1, IF n < Len(s) THEN n ELSE Len(s))

\* the first index at or after i whose character is no whitespace (Len(s)+1 if none)
RECURSIVE SkipSpace(_, _)
SkipSpace(s, i) == IF i <= Len(s) /\ IsSpace(s[i]) THEN SkipSpace(s, i + 1) ELSE i
\* the first index at or after i whose character is no word character
RECURSIVE SkipWord(_, _)
SkipWord(s, i) == IF i <= Len(s) /\ IsWord(s[i]) THEN SkipWord(s, i + 1) ELSE i

\* str.strip()
RECURSIVE StripRight(_)
StripRight(s) ==
    IF s # <<>> /\ IsSpace(s[Len(s)]) THEN StripRight(SubSeq(s, 1, Len(s) - 1)) ELSE s
Strip(s) == StripRight(SubSeq(s, SkipSpace(s, 1), Len(s)))

(***************************************************************************)
(* The scoped directive of retrieve:                                       *)
(*   re.search(r'search\s+(only\s+)?in\s+((?:\w+(?:\s+and\s+)?)+)', s)      *)
(* Every operator returns the index after what it matched, 0 for no match. *)
(***************************************************************************)
\* \s+and\s+ at i
AndSep(s, i) ==
    LET w == SkipSpace(s, i)
        y == SkipSpace(s, w + Len(WordAnd))
    IN  IF w > i /\ StartsAt(s, WordAnd, w) /\ y > w + Len(WordAnd) THEN y ELSE 0

\* in\s+ at i, followed by a word character: where group 2 starts
InThenWord(s, i) ==
    LET r == SkipSpace(s, i + Len(WordIn))
    IN  IF StartsAt(s, WordIn, i) /\ r > i + Len(WordIn) /\ r <= Len(s) /\ IsWord(s[r])
        THEN r ELSE 0

\* search\s+(only\s+)?in\s+ at i, followed by a word character: where group 2
\* starts.  The optional group is tried first and given up when the rest fails.
DirectiveAt(s, i) ==
    LET b == SkipSpace(s, i + Len(WordSearch))
        d == SkipSpace(s, b + Len(WordOnly))
        withOnly == IF StartsAt(s, WordOnly, b) /\ d > b + Len(WordOnly)
                    THEN InThenWord(s, d) ELSE 0
    IN  IF ~(StartsAt(s, WordSearch, i) /\ b > i + Len(WordSearch)) THEN 0
        ELSE IF withOnly # 0 THEN withOnly
        ELSE InThenWord(s, b)

\* (?:\w+(?:\s+and\s+)?)+ from the word character at p, greedy: the index after it
RECURSIVE GroupEnd(_, _)
GroupEnd(s, p) ==
    LET e == SkipWord(s, p)
        a == AndSep(s, e)
    IN  IF a = 0 THEN e
        ELSE IF a <= Len(s) /\ IsWord(s[a]) THEN GroupEnd(s, a)
        ELSE a

\* re.search(...): the leftmost match
DirectiveMatches(s) == \E i \in 1..Len(s) : DirectiveAt(s, i) # 0
\* a directive whose group 2 is (\w+): the list stops after its first name
DirectiveGroup2_FirstWord(s) ==
    LET i == CHOOSE i \in 1..Len(s) :
                 DirectiveAt(s, i) # 0 /\ \A j \in 1..(i - 1) : DirectiveAt(s, j) = 0
        p == DirectiveAt(s, i)
    IN  SubSeq(s, p, SkipWord(s, p) - 1)

\* match.group(2)
DirectiveGroup2(s) ==
    LET i == CHOOSE i \in 1..Len(s) :
                 DirectiveAt(s, i) # 0 /\ \A j \in 1..(i - 1) : DirectiveAt(s, j) = 0
        p == DirectiveAt(s, i)
    IN  SubSeq(s, p, GroupEnd(s, p) - 1)

\* \s*,\s* at i
CommaSep(s, i) ==
    LET w == SkipSpace(s, i)
    IN  IF w <= Len(s) /\ s[w] = "," THEN SkipSpace(s, w + 1) ELSE 0
\* \s+and\s+|\s*,\s* at i
SepAt(s, i) == IF AndSep(s, i) # 0 THEN AndSep(s, i) ELSE CommaSep(s, i)

\* re.split(r'\s+and\s+|\s*,\s*', s): scans from p, the current piece began at from
RECURSIVE SplitFrom(_, _, _)
SplitFrom(s, from, p) ==
    IF p > Len(s) THEN <<SubSeq(s, from, Len(s))>>
    ELSE IF SepAt(s, p) # 0
         THEN <<SubSeq(s, from, p - 1)>> \o SplitFrom(s, SepAt(s, p), SepAt(s, p))
         ELSE SplitFrom(s, from, p + 1)
ReSplit(s) == SplitFrom(s, 1, 1)

(***************************************************************************)
(* The tools and their registry.                                           *)
(***************************************************************************)
search_confluence(query) ==
    IF Contains(Lower(query), WordPipeline) THEN ConfluenceFound
    ELSE ConfluenceNone \o query \o QuoteEnd

search_bitbucket(query) == BitbucketFound \o query \o QuoteDotEnd

query_postgres(query) ==
    IF Contains(Lower(query), WordOrders) THEN PostgresFound
    ELSE PostgresNone \o query \o QuoteEnd

query_graphql(query) ==
    IF Contains(Lower(query), WordUser) THEN GraphqlFound
    ELSE GraphqlNone \o query \o QuoteEnd

search_field_mapping(query) ==
    IF Contains(Lower(query), WordUserId) THEN FieldMappingUserId
    ELSE IF Contains(Lower(query), WordOrderStatus) THEN FieldMappingOrderStatus
    ELSE FieldMappingNone \o query \o QuoteEnd

\* summarize_text: "Summary: " + text[:150] + "..."
PreviewLen == 150
summarize_text(text) == SummaryLabel \o Take(text, PreviewLen) \o Ellipsis

\* the tools dict, in insertion order: key and the function registered under it
tools ==
    << [key |-> KeyConfluence,   func |-> FnSearchConfluence],
       [key |-> KeyBitbucket,    func |-> FnSearchBitbucket],
       [key |-> KeyPostgresql,   func |-> FnQueryPostgres],
       [key |-> KeyGraphql,      func |-> FnQueryGraphql],
       [key |-> KeyFieldMapping, func |-> FnSearchFieldMapping] >>

\* list(tools.keys())
ToolKeys == [i \in 1..Len(tools) |-> tools[i].key]
\* name in tools
InTools(name) == \E i \in 1..Len(tools) : tools[i].key = name
\* tools[name]
ToolFunc(name) == tools[CHOOSE i \in 1..Len(tools) : tools[i].key = name].func

\* tool_func(query)
CallTool(func, query) ==
    CASE func = FnSearchConfluence   -> search_confluence(query)
      [] func = FnSearchBitbucket    -> search_bitbucket(query)
      [] func = FnQueryPostgres      -> query_postgres(query)
      [] func = FnQueryGraphql       -> query_graphql(query)
      [] func = FnSearchFieldMapping -> search_field_mapping(query)

(***************************************************************************)
(* safe_tool_call.  throws: the call tool_func(query) raises.  has_name:   *)
(* the registered tool object has a __name__ attribute.  The objects are   *)
(* what the @tool decorator returns, not the functions, and the handler    *)
(* reads tool_func.__name__: where the attribute is missing the handler    *)
(* raises AttributeError itself and the exception leaves the wrapper.      *)
(* An outcome is [exc |-> raised, val |-> the string returned].            *)
(***************************************************************************)
safe_tool_call(tool_func, query, throws, has_name) ==
    IF ~throws THEN [exc |-> FALSE, val |-> CallTool(tool_func, query)]
    ELSE IF has_name
         THEN [exc |-> FALSE, val |-> ErrorWhileCalling \o tool_func \o FullStop]
         ELSE [exc |-> TRUE, val |-> <<>>]

\* async_safe_tool_call: the pair (tool_name, result), or the exception
async_safe_tool_call(tool_name, query, throws, has_name) ==
    LET r == safe_tool_call(ToolFunc(tool_name), query, throws, has_name)
    IN  [tool |-> tool_name, threw |-> throws, exc |-> r.exc, val |-> r.val]

(***************************************************************************)
(* rank_results.  similarity is difflib's SequenceMatcher(None, a, b)      *)
(* .ratio() = 2*M/T, M the size of the matching blocks: the longest        *)
(* matching block (earliest in a, then earliest in b), then the same to    *)
(* its left and to its right.  No character is junk below 200 characters.  *)
(***************************************************************************)
RECURSIVE RunLen(_, _, _, _, _, _)
\* the length of the common run of a[i..ahi] and b[j..bhi]
RunLen(a, b, i, j, ahi, bhi) ==
    IF i <= ahi /\ j <= bhi /\ a[i] = b[j] THEN 1 + RunLen(a, b, i + 1, j + 1, ahi, bhi)
    ELSE 0

\* find_longest_match(alo, ahi, blo, bhi), bounds inclusive: <<i, j, k>>, k = 0 if none
find_longest_match(a, b, alo, ahi, blo, bhi) ==
    LET starts == {p \in (alo..ahi) \X (blo..bhi) :
                      /\ a[p[1]] = b[p[2]]
                      /\ (p[1] = alo \/ p[2] = blo \/ a[p[1] - 1] # b[p[2] - 1])}
        runs == {<<p[1], p[2], RunLen(a, b, p[1], p[2], ahi, bhi)>> : p \in starts}
    IN  IF runs = {} THEN <<alo, blo, 0>>
        ELSE CHOOSE r \in runs : \A o \in runs :
                \/ r[3] > o[3]
                \/ r[3] = o[3] /\ r[1] < o[1]
                \/ r[3] = o[3] /\ r[1] = o[1] /\ r[2] <= o[2]

RECURSIVE MatchedSize(_, _, _, _, _, _)
\* the sum of the sizes of get_matching_blocks() within the window
MatchedSize(a, b, alo, ahi, blo, bhi) ==
    IF alo > ahi \/ blo > bhi THEN 0
    ELSE LET m == find_longest_match(a, b, alo, ahi, blo, bhi)
         IN  IF m[3] = 0 THEN 0
             ELSE m[3] + MatchedSize(a, b, alo, m[1] - 1, blo, m[2] - 1)
                       + MatchedSize(a, b, m[1] + m[3], ahi, m[2] + m[3], bhi)

\* the similarity bonus rounded up instead of truncated
SimilarityBoost_RoundsUp(x, y, match_boost) ==
    LET a == Lower(x)
        b == Lower(y)
        t == Len(a) + Len(b)
    IN  IF t = 0 THEN match_boost
        ELSE (2 * MatchedSize(a, b, 1, Len(a), 1, Len(b)) * match_boost + t - 1) \div t

\* int(similarity(a, b) * match_boost): floor(2*M*boost / T), ratio() is 1.0 when T = 0
SimilarityBoost(x, y, match_boost) ==
    LET a == Lower(x)
        b == Lower(y)
    IN  IF Len(a) + Len(b) = 0 THEN match_boost
        ELSE (2 * MatchedSize(a, b, 1, Len(a), 1, Len(b)) * match_boost) \div (Len(a) + Len(b))

\* the penalty applied only where the result spells "error" in lower case
Score_CaseSensitiveError(query, result, error_penalty, match_boost) ==
    1 + (IF Contains(Lower(result), Lower(query)) THEN match_boost
         ELSE SimilarityBoost(query, result, match_boost))
      - (IF Contains(result, WordError) THEN error_penalty ELSE 0)

\* the score rank_results gives one result
Score(query, result, error_penalty, match_boost) ==
    1 + (IF Contains(Lower(result), Lower(query)) THEN match_boost
         ELSE SimilarityBoost(query, result, match_boost))
      - (IF Contains(Lower(result), WordError) THEN error_penalty ELSE 0)

\* a descending sort that reverses the entries of equal score
RECURSIVE SortedByScore_TiesReversed(_)
SortedByScore_TiesReversed(entries) ==
    IF entries = <<>> THEN <<>>
    ELSE LET rest == SortedByScore_TiesReversed(SubSeq(entries, 1, Len(entries) - 1))
             x    == entries[Len(entries)]
             n    == Cardinality({i \in 1..Len(rest) : rest[i].score > x.score})
         IN  SubSeq(rest, 1, n) \o <<x>> \o SubSeq(rest, n + 1, Len(rest))

\* sorted(entries, key=score, reverse=True): stable, equal scores keep their order
RECURSIVE SortedByScore(_)
SortedByScore(entries) ==
    IF entries = <<>> THEN <<>>
    ELSE LET rest == SortedByScore(SubSeq(entries, 1, Len(entries) - 1))
             x    == entries[Len(entries)]
             n    == Cardinality({i \in 1..Len(rest) : rest[i].score >= x.score})
         IN  SubSeq(rest, 1, n) \o <<x>> \o SubSeq(rest, n + 1, Len(rest))

\* the defaults of rank_results
error_penalty == 1
match_boost == 2

\* rank_results(query, tool_results): tool_results a dict, here the sequence of
\* its <<key, value>> items in insertion order
rank_results(query, tool_results) ==
    SortedByScore([i \in 1..Len(tool_results) |->
        [tool  |-> tool_results[i][1],
         score |-> Score(query, tool_results[i][2], error_penalty, match_boost)]])

(***************************************************************************)
(* Tool selection in retrieve.                                             *)
(***************************************************************************)
\* re.findall("(confluence|bitbucket|postgresql|graphql|field mapping)", s): scanning
\* from p, the alternatives tried in the order of tools.keys(), matches not overlapping
RECURSIVE FindAll(_, _)
FindAll(s, p) ==
    IF p > Len(s) THEN <<>>
    ELSE IF \E k \in 1..Len(ToolKeys) : StartsAt(s, ToolKeys[k], p)
         THEN LET k == CHOOSE k \in 1..Len(ToolKeys) :
                           /\ StartsAt(s, ToolKeys[k], p)
                           /\ \A j \in 1..(k - 1) : ~StartsAt(s, ToolKeys[j], p)
              IN  <<ToolKeys[k]>> \o FindAll(s, p + Len(ToolKeys[k]))
         ELSE FindAll(s, p + 1)

\* the distinct elements of a list, each at its first place
RECURSIVE Distinct(_)
Distinct(l) ==
    IF l = <<>> THEN <<>>
    ELSE LET rest == Distinct(SubSeq(l, 1, Len(l) - 1))
         IN  IF \E i \in 1..Len(rest) : rest[i] = l[Len(l)] THEN rest
             ELSE Append(rest, l[Len(l)])

\* the replies of llm_base.invoke: [kind, val].  "raise": invoke raised.  "text": the
\* text val.  For the suggestion prompt the text goes through eval: "unparsable": eval
\* raised; "scalar": a value that cannot be iterated; "str": the string val, whose
\* elements are its characters; "list": the list val of names.
LLMRaise == [kind |-> "raise", val |-> <<>>]
NoSuggestion == [kind |-> "none", val |-> <<>>]

\* an except branch that leaves the toolset empty
SuggestedToolset_EmptyOnError(resp) ==
    CASE resp.kind = "list" -> SelectSeq(resp.val, InTools)
      [] resp.kind = "str"  -> SelectSeq([i \in 1..Len(resp.val) |-> <<resp.val[i]>>], InTools)
      [] OTHER              -> <<>>

\* [tool for tool in suggestions if tool in tools], or the except branch
SuggestedToolset(resp) ==
    CASE resp.kind = "list" -> SelectSeq(resp.val, InTools)
      [] resp.kind = "str"  -> SelectSeq([i \in 1..Len(resp.val) |-> <<resp.val[i]>>], InTools)
      [] OTHER              -> ToolKeys

\* [tool.strip() for tool in mentioned if tool.strip() in tools]
StripKnown(mentioned) == SelectSeq([i \in 1..Len(mentioned) |-> Strip(mentioned[i])], InTools)

\* the scoped directive tested before "search in all"
SelectTools_DirectiveFirst(query, resp) ==
    LET lowered_query == Lower(query)
        matches == FindAll(lowered_query, 1)
    IN  IF DirectiveMatches(lowered_query)
        THEN [toolset |-> StripKnown(ReSplit(DirectiveGroup2(lowered_query))),
              asked |-> FALSE, unordered |-> FALSE]
        ELSE IF Contains(lowered_query, SearchInAll)
        THEN [toolset |-> ToolKeys, asked |-> FALSE, unordered |-> FALSE]
        ELSE IF matches # <<>>
        THEN [toolset |-> Distinct([i \in 1..Len(matches) |-> Lower(matches[i])]),
              asked |-> FALSE, unordered |-> TRUE]
        ELSE [toolset |-> SuggestedToolset(resp), asked |-> TRUE, unordered |-> FALSE]

\* a scoped directive that names no registered tool falls through to the later branches
SelectTools_RescuesEmptyScope(query, resp) ==
    LET lowered_query == Lower(query)
        matches == FindAll(lowered_query, 1)
        scoped == IF DirectiveMatches(lowered_query)
                  THEN StripKnown(ReSplit(DirectiveGroup2(lowered_query))) ELSE <<>>
    IN  IF Contains(lowered_query, SearchInAll)
        THEN [toolset |-> ToolKeys, asked |-> FALSE, unordered |-> FALSE]
        ELSE IF scoped # <<>>
        THEN [toolset |-> scoped, asked |-> FALSE, unordered |-> FALSE]
        ELSE IF matches # <<>>
        THEN [toolset |-> Distinct([i \in 1..Len(matches) |-> Lower(matches[i])]),
              asked |-> FALSE, unordered |-> TRUE]
        ELSE [toolset |-> SuggestedToolset(resp), asked |-> TRUE, unordered |-> FALSE]

\* lines 131-148: the toolset; asked: the suggestion prompt was sent; unordered: the
\* toolset is list(set(...)), whose order is the set's iteration order
SelectTools(query, resp) ==
    LET lowered_query == Lower(query)
        matches == FindAll(lowered_query, 1)
    IN  IF Contains(lowered_query, SearchInAll)
        THEN [toolset |-> ToolKeys, asked |-> FALSE, unordered |-> FALSE]
        ELSE IF DirectiveMatches(lowered_query)
        THEN [toolset |-> StripKnown(ReSplit(DirectiveGroup2(lowered_query))),
              asked |-> FALSE, unordered |-> FALSE]
        ELSE IF matches # <<>>
        THEN [toolset |-> Distinct([i \in 1..Len(matches) |-> Lower(matches[i])]), asked |-> FALSE, unordered |-> TRUE]
        ELSE [toolset |-> SuggestedToolset(resp), asked |-> TRUE, unordered |-> FALSE]

(***************************************************************************)
(* Python dicts.  AgentState is a function on the keys that are set;       *)
(* tool_results and retrieved, whose order matters, are the sequences of   *)
(* their <<key, value>> items in insertion order.                          *)
(***************************************************************************)
\* {**d, k: v}
Put(d, k, v) == (k :> v) @@ d

\* d[k] = v on an ordered dict: a new key goes last, a known key keeps its place
DictSet(d, k, v) ==
    IF \E i \in 1..Len(d) : d[i][1] = k
    THEN [i \in 1..Len(d) |-> IF d[i][1] = k THEN <<k, v>> ELSE d[i]]
    ELSE Append(d, <<k, v>>)

\* dict(pairs)
RECURSIVE DictOf(_)
DictOf(pairs) ==
    IF pairs = <<>> THEN <<>>
    ELSE DictSet(DictOf(SubSeq(pairs, 1, Len(pairs) - 1)),
                 pairs[Len(pairs)][1], pairs[Len(pairs)][2])

\* d[k]
DictGet(d, k) == d[CHOOSE i \in 1..Len(d) : d[i][1] = k][2]

(***************************************************************************)
(* The nodes.                                                              *)
(***************************************************************************)
\* a handler that logs the failure and returns the state as it was
rephrase_NoPlaceholder(st, reply) ==
    IF "question" \in DOMAIN st /\ reply.kind = "text"
    THEN Put(st, "rephrased", reply.val)
    ELSE st

\* the rephrased text stored over the question as well
rephrase_OverwritesQuestion(st, reply) ==
    IF "question" \in DOMAIN st /\ reply.kind = "text"
    THEN Put(Put(st, "rephrased", reply.val), "question", reply.val)
    ELSE Put(st, "rephrased", RephraseFailed)

\* a handler that falls back to the question as it was asked
rephrase_FallsBackToQuestion(st, reply) ==
    IF "question" \in DOMAIN st /\ reply.kind = "text"
    THEN Put(st, "rephrased", reply.val)
    ELSE Put(st, "rephrased", st["question"])

\* rephrase(state), given what llm_base.invoke does
rephrase(st, reply) ==
    IF "question" \in DOMAIN st /\ reply.kind = "text"
    THEN Put(st, "rephrased", reply.val)
    ELSE Put(st, "rephrased", RephraseFailed)

\* asyncio.gather over the toolset: every call runs, in order; throws is the set of
\* positions whose tool raises
Gather(selected, query, throws, has_name) ==
    [i \in 1..Len(selected) |->
        async_safe_tool_call(selected[i], query, i \in throws, has_name)]

\* {"error": "Retrieval failed."}
RetrievalError == << <<WordError, RetrievalFailed>> >>

\* the dict of the results left in the order the calls were made
Retrieved_Unranked(query, calls) ==
    IF \E i \in 1..Len(calls) : calls[i].exc THEN RetrievalError
    ELSE DictOf([i \in 1..Len(calls) |-> <<calls[i].tool, calls[i].val>>])

\* the call returned
Returned(call) == ~call.exc

\* the results of the calls that returned kept when another call raised
Retrieved_KeepsPartial(query, calls) ==
    LET done == SelectSeq(calls, Returned)
    IN  DictOf([i \in 1..Len(done) |-> <<done[i].tool, done[i].val>>])

\* lines 150-160 of retrieve, from the outcomes of the gathered calls: an exception
\* among them is raised by the await and caught by the handler of the stage
Retrieved(query, calls) ==
    IF \E i \in 1..Len(calls) : calls[i].exc THEN RetrievalError
    ELSE LET tool_results == DictOf([i \in 1..Len(calls) |-> <<calls[i].tool, calls[i].val>>])
             ranked == rank_results(query, tool_results)
             again  == SortedByScore(ranked)
         IN  [i \in 1..Len(again) |-> <<again[i].tool, DictGet(tool_results, again[i].tool)>>]

\* state.get("rephrased", "")
RetrieveQuery(st) == IF "rephrased" \in DOMAIN st THEN st["rephrased"] ELSE <<>>

retrieve(st, selected, throws, has_name) ==
    Put(st, "retrieved",
        Retrieved(RetrieveQuery(st), Gather(selected, RetrieveQuery(st), throws, has_name)))

generate_answer(st, reply) ==
    IF {"retrieved", "rephrased"} \subseteq DOMAIN st /\ reply.kind = "text"
    THEN Put(st, "answer", reply.val)
    ELSE Put(st, "answer", AnswerFailed)

\* summarize_text never raises on a string; a missing answer is the KeyError branch
summarize(st) ==
    IF "answer" \in DOMAIN st
    THEN Put(st, "summary", summarize_text(st["answer"]))
    ELSE Put(st, "summary", SummarizeFailed)

(***************************************************************************)
(* The graph.                                                              *)
(***************************************************************************)
\* a graph whose Retrieve node is wired to Summarize
Edge_SkipsAnswer(node) ==
    CASE node = "Rephrase"  -> "Retrieve"
      [] node = "Retrieve"  -> "Summarize"
      [] node = "Answer"    -> "Summarize"
      [] node = "Summarize" -> "END"

EntryPoint == "Rephrase"
Edge(node) ==
    CASE node = "Rephrase"  -> "Retrieve"
      [] node = "Retrieve"  -> "Answer"
      [] node = "Answer"    -> "Summarize"
      [] node = "Summarize" -> "END"

(***************************************************************************)
(* Inputs: the messages, the replies of the language model, the tools that *)
(* raise.                                                                  *)
(***************************************************************************)
MaxNames == 2      \* names listed in a generated question
MaxSuggest == 2    \* names in a suggested list
LongAnswerUnits == 11

Range(f) == {f[i] : i \in DOMAIN f}
SeqsUpTo(S, n) == UNION {[1..k -> S] : k \in 0..n}

RECURSIVE Join(_, _)
\* sep.join(parts)
Join(parts, sep) ==
    IF parts = <<>> THEN <<>>
    ELSE IF Len(parts) = 1 THEN parts[1]
    ELSE parts[1] \o sep \o Join(Tail(parts), sep)

RECURSIVE Repeat(_, _)
Repeat(s, n) == IF n = 0 THEN <<>> ELSE s \o Repeat(s, n - 1)

ListedNames == {KeyConfluence, NameGraphQL, KeyFieldMapping, NameJira}
NameLists == SeqsUpTo(ListedNames, MaxNames)
Joins == {AndJoin, CommaJoin}

\* "search [only] in A and B ..." and "search [only] in A, B ...", with or without a tail
ScopedQuestions ==
    {pre \o Join(names, sep) \o post :
        pre \in {SearchInPrefix, SearchOnlyInPrefix}, names \in NameLists \ {<<>>},
        sep \in Joins, post \in {<<>>, AboutBitbucket}}
\* names only
PlainQuestions == {Join(names, sep) : names \in NameLists, sep \in Joins}
OtherQuestions == {SearchInAll, AllThenNames, ScopedThenAll, OverlappingNames, OrdersQuestion}
Questions == ScopedQuestions \cup PlainQuestions \cup OtherQuestions

\* msg.content of the incoming messages
Messages == {RawScoped, OrdersQuestion}

Answers == {ShortAnswer, Repeat(LongAnswerUnit, LongAnswerUnits)}

TextReplies(texts) == {[kind |-> "text", val |-> t] : t \in texts}

SuggestNames == {KeyPostgresql, KeyGraphql, NameJira}
SuggestionResponses ==
    {LLMRaise, [kind |-> "unparsable", val |-> <<>>], [kind |-> "scalar", val |-> <<>>],
     [kind |-> "str", val |-> KeyGraphql]}
    \cup {[kind |-> "list", val |-> l] : l \in SeqsUpTo(SuggestNames, MaxSuggest)}

\* the orders in which a set of distinct names can be listed
Orderings(l) == {p \in [1..Len(l) -> Range(l)] : \A i, j \in 1..Len(l) : p[i] = p[j] => i = j}

(***************************************************************************)
(* The run of graph.ainvoke({"question": question}).                       *)
(***************************************************************************)
Init ==
    /\ \E m \in Messages : state = ("question" :> Strip(m))
    /\ pc = EntryPoint
    /\ trace = <<>>
    /\ toolset = <<>>
    /\ llm_calls = <<>>
    /\ tool_calls = <<>>
    /\ sink = <<>>
    /\ rank_args = <<>>
    /\ ranking = <<>>

Rephrase ==
    /\ pc = "Rephrase"
    /\ \E reply \in {LLMRaise} \cup TextReplies(Questions) :
          /\ state' = rephrase(state, reply)
          /\ llm_calls' = Append(llm_calls, [call |-> "rephrase", reply |-> reply])
    /\ pc' = Edge("Rephrase")
    /\ trace' = Append(trace, "Rephrase")
    /\ UNCHANGED <<toolset, tool_calls, sink, rank_args, ranking>>

Retrieve ==
    /\ pc = "Retrieve"
    /\ LET query == RetrieveQuery(state)
           asks  == SelectTools(query, NoSuggestion).asked
       IN  \E resp \in (IF asks THEN SuggestionResponses ELSE {NoSuggestion}) :
           LET sel == SelectTools(query, resp)
           IN  \E selected \in (IF sel.unordered THEN Orderings(sel.toolset) ELSE {sel.toolset}) :
               \E throws \in SUBSET (1..Len(selected)) :
               \E has_name \in (IF throws = {} THEN {TRUE} ELSE BOOLEAN) :
                  /\ state' = retrieve(state, selected, throws, has_name)
                  /\ toolset' = selected
                  /\ tool_calls' = tool_calls \o Gather(selected, query, throws, has_name)
                  /\ llm_calls' = IF sel.asked
                                  THEN Append(llm_calls, [call |-> "suggest", reply |-> resp])
                                  ELSE llm_calls
    /\ pc' = Edge("Retrieve")
    /\ trace' = Append(trace, "Retrieve")
    /\ UNCHANGED <<sink, rank_args, ranking>>

Answer ==
    /\ pc = "Answer"
    /\ \E reply \in {LLMRaise} \cup TextReplies(Answers) :
          /\ state' = generate_answer(state, reply)
          /\ llm_calls' = Append(llm_calls, [call |-> "answer", reply |-> reply])
    /\ pc' = Edge("Answer")
    /\ trace' = Append(trace, "Answer")
    /\ UNCHANGED <<toolset, tool_calls, sink, rank_args, ranking>>

Summarize ==
    /\ pc = "Summarize"
    /\ state' = summarize(state)
    /\ pc' = Edge("Summarize")
    /\ trace' = Append(trace, "Summarize")
    /\ UNCHANGED <<toolset, llm_calls, tool_calls, sink, rank_args, ranking>>

Next == Rephrase \/ Retrieve \/ Answer \/ Summarize

Spec == Init /\ [][Next]_vars

(***************************************************************************)
(* A direct call of rank_results(query, tool_results), the other arguments *)
(* at their defaults.  The arguments are drawn from short texts that       *)
(* contain the query or not, resemble it or not, and spell "error" in      *)
(* either case or not.                                                     *)
(***************************************************************************)
MaxRanked == 3

RankQueries == {<<"A", "b">>, <<"z", "z">>, <<>>}
RankTexts ==
    {<<"x", "a", "b", "y">>, <<"a">>, <<"z", "z", "z", "z">>,
     <<"E", "r", "r", "o", "r", " ", "a", "b">>, <<"E", "R", "R", "O", "R">>}
RankKeys == Range(SubSeq(ToolKeys, 1, MaxRanked))

\* the dicts of at most MaxRanked items, in every insertion order
RankDicts ==
    UNION {{[i \in 1..n |-> <<ks[i], ts[i]>>] :
               ks \in {k \in [1..n -> RankKeys] : \A i, j \in 1..n : k[i] = k[j] => i = j},
               ts \in [1..n -> RankTexts]} : n \in 0..MaxRanked}

RankInit ==
    /\ rank_args \in [query : RankQueries, tool_results : RankDicts]
    /\ ranking = <<>>
    /\ pc = "rank_results"
    /\ state = <<>>
    /\ trace = <<>>
    /\ toolset = <<>>
    /\ llm_calls = <<>>
    /\ tool_calls = <<>>
    /\ sink = <<>>

Rank ==
    /\ pc = "rank_results"
    /\ ranking' = rank_results(rank_args.query, rank_args.tool_results)
    /\ pc' = "return"
    /\ UNCHANGED <<state, trace, toolset, llm_calls, tool_calls, sink, rank_args>>

RankNext == Rank

SpecRank == RankInit /\ [][RankNext]_vars

(***************************************************************************)
(* The message handler.  handle_user_input echoes the question, awaits     *)
(* graph.ainvoke and then calls stream_response once for each field of the *)
(* result.  stream_response sends an empty message under the title, hands  *)
(* the content to llm_streaming.astream and streams the chunks that come   *)
(* back into the message.  Any of the awaits may raise: stream_response    *)
(* catches what its try block raises and sends a notice, and what the send *)
(* of that notice raises reaches the handler of handle_user_input, which   *)
(* sends its own notice and returns.  The sink holds what the client got:  *)
(* [op |-> "send"] a message, [op |-> "stream"] the streamed reply to the  *)
(* prompt in content and the final update.                                 *)
(***************************************************************************)
Titles == <<"Rephrased", "Retrieved Info", "Answer", "Summary">>
StreamingError ==
    <<"E", "r", "r", "o", "r", " ", "d", "u", "r", "i", "n", "g", " ", "s",
      "t", "r", "e", "a", "m", "i", "n", "g", " ", "r", "e", "s", "p", "o",
      "n", "s", "e", ".">>
HandlerError ==
    <<"A", "n", " ", "e", "r", "r", "o", "r", " ", "o", "c", "c", "u", "r",
      "r", "e", "d", " ", "w", "h", "i", "l", "e", " ", "p", "r", "o", "c",
      "e", "s", "s", "i", "n", "g", " ", "y", "o", "u", "r", " ", "r", "e",
      "q", "u", "e", "s", "t", ".">>
ColonSpace == <<":", " ">>
BlankLine == <<"\n", "\n">>

\* cl.Message(content=content).send(): the author is Chainlit's default
Notice(content) == [op |-> "send", author |-> "", content |-> content]

\* "\n\n".join(f"{k}: {v}" for k, v in retrieved.items())
retrieved_text(items) ==
    Join([i \in 1..Len(items) |-> items[i][1] \o ColonSpace \o items[i][2]], BlankLine)

\* where the try block of stream_response may raise: nowhere, in msg.send(), or later
\* (in astream, stream_token or update)
StreamFailures == {"none", "send", "stream"}

\* stream_response(title, content): what the client receives and whether an exception
\* leaves the function (the send in its handler raised)
stream_response(title, content, fails_at, notice_fails) ==
    LET label == [op |-> "send", author |-> title, content |-> <<>>]
        reply == [op |-> "stream", author |-> title, content |-> content]
    IN  IF fails_at = "none" THEN [exc |-> FALSE, received |-> <<label, reply>>]
        ELSE LET before == IF fails_at = "send" THEN <<>> ELSE <<label>>
             IN  IF notice_fails THEN [exc |-> TRUE, received |-> before]
                 ELSE [exc |-> FALSE, received |-> Append(before, Notice(StreamingError))]

\* the handler of handle_user_input: its notice reaches the client unless that send raises too
HandlerNotices == {<<>>, <<Notice(HandlerError)>>}

\* the content handle_user_input passes with a title
BlockContent(title) ==
    CASE title = "Rephrased"      -> state["rephrased"]
      [] title = "Retrieved Info" -> retrieved_text(state["retrieved"])
      [] title = "Answer"         -> state["answer"]
      [] title = "Summary"        -> state["summary"]

\* the statement after stream_response(title, ...)
AfterBlock(title) ==
    CASE title = "Rephrased"      -> "Retrieved Info"
      [] title = "Retrieved Info" -> "Answer"
      [] title = "Answer"         -> "Summary"
      [] title = "Summary"        -> "done"

\* graph.ainvoke(st): the four nodes in the order of the edges
ainvoke(st, rephrase_reply, selected, throws, has_name, answer_reply) ==
    summarize(generate_answer(retrieve(rephrase(st, rephrase_reply), selected, throws,
                                       has_name),
                              answer_reply))

HandlerInit ==
    /\ \E m \in Messages : state = ("question" :> Strip(m))
    /\ pc = "Echo"
    /\ trace = <<>>
    /\ sink = <<>>
    /\ toolset = <<>>
    /\ llm_calls = <<>>
    /\ tool_calls = <<>>
    /\ rank_args = <<>>
    /\ ranking = <<>>

\* await cl.Message(content=f"{question}").send()
Echo ==
    /\ pc = "Echo"
    /\ \/ /\ sink' = Append(sink, Notice(state["question"]))
          /\ pc' = "Invoke"
       \/ /\ \E notice \in HandlerNotices : sink' = sink \o notice
          /\ pc' = "done"
    /\ trace' = Append(trace, "Echo")
    /\ UNCHANGED <<state, toolset, llm_calls, tool_calls, rank_args, ranking>>

\* result = await graph.ainvoke({"question": question})
Invoke ==
    /\ pc = "Invoke"
    /\ \E rephrase_reply \in {LLMRaise} \cup TextReplies({OrdersQuestion, ScopedThenAll}) :
       LET query == RetrieveQuery(rephrase(state, rephrase_reply))
           asks  == SelectTools(query, NoSuggestion).asked
       IN  \E resp \in (IF asks THEN {LLMRaise, [kind |-> "list", val |-> <<KeyPostgresql>>]}
                        ELSE {NoSuggestion}) :
           LET sel == SelectTools(query, resp)
           IN  \E selected \in (IF sel.unordered THEN Orderings(sel.toolset) ELSE {sel.toolset}) :
               \E throws \in {{}, 1..Len(selected)} :
               \E has_name \in (IF throws = {} THEN {TRUE} ELSE BOOLEAN) :
               \E answer_reply \in {LLMRaise} \cup TextReplies(Answers) :
                  state' = ainvoke(state, rephrase_reply, selected, throws, has_name,
                                   answer_reply)
    /\ pc' = Titles[1]
    /\ trace' = Append(trace, "Invoke")
    /\ UNCHANGED <<sink, toolset, llm_calls, tool_calls, rank_args, ranking>>

\* await stream_response(title, ...), for the title the handler has come to
Stream ==
    /\ pc \in Range(Titles)
    /\ \E fails_at \in StreamFailures :
       \E notice_fails \in (IF fails_at = "none" THEN {FALSE} ELSE BOOLEAN) :
          LET r == stream_response(pc, BlockContent(pc), fails_at, notice_fails)
          IN  IF r.exc
              THEN /\ \E notice \in HandlerNotices : sink' = sink \o r.received \o notice
                   /\ pc' = "done"
              ELSE /\ sink' = sink \o r.received
                   /\ pc' = AfterBlock(pc)
    /\ trace' = Append(trace, pc)
    /\ UNCHANGED <<state, toolset, llm_calls, tool_calls, rank_args, ranking>>

HandlerNext == Echo \/ Invoke \/ Stream

SpecHandler == HandlerInit /\ [][HandlerNext]_vars

(***************************************************************************)
(* Properties.                                                             *)
(***************************************************************************)
Ran(node) == \E i \in 1..Len(trace) : trace[i] = node
Asked == \E i \in 1..Len(llm_calls) : llm_calls[i].call = "suggest"
SuggestionReply == llm_calls[CHOOSE i \in 1..Len(llm_calls) : llm_calls[i].call = "suggest"].reply
AllKeys == Range(ToolKeys)
NoToolThrew == \A i \in 1..Len(tool_calls) : ~tool_calls[i].threw
StageOrder == <<"Rephrase", "Retrieve", "Answer", "Summarize">>
DerivedFields == {"rephrased", "retrieved", "answer", "summary"}

\* C1: whatever the language model and the tools do, every node leaves its field set,
\* so that a run that reaches END returns rephrased, retrieved, answer and summary.
C1_RunCompletesAllFields ==
    /\ pc \in {"Rephrase", "Retrieve", "Answer", "Summarize", "END"}
    /\ pc = "END" => DerivedFields \subseteq DOMAIN state

\* a finished run in which every language-model call raised and every tool raised
C1_Witness ==
    /\ pc = "END"
    /\ \A i \in 1..Len(llm_calls) : llm_calls[i].reply.kind = "raise"
    /\ Len(tool_calls) = Len(ToolKeys)
    /\ \A i \in 1..Len(tool_calls) : tool_calls[i].threw
    /\ DerivedFields \subseteq DOMAIN state

\* C2: the nodes run in the order Rephrase, Retrieve, Answer, Summarize, each once:
\* the nodes that have run are a prefix of that order and the next node is the one
\* after the prefix (END after all four), whether or not a node stored a placeholder.
C2_StrictStageOrder ==
    /\ Len(trace) <= Len(StageOrder)
    /\ trace = SubSeq(StageOrder, 1, Len(trace))
    /\ pc = IF Len(trace) = Len(StageOrder) THEN "END" ELSE StageOrder[Len(trace) + 1]

\* a run that reached END although Rephrase, Retrieve and Answer each stored a placeholder
C2_Witness ==
    /\ pc = "END"
    /\ trace = StageOrder
    /\ state["rephrased"] = RephraseFailed
    /\ state["retrieved"] = RetrievalError
    /\ state["answer"] = AnswerFailed
    /\ state["summary"] = summarize_text(AnswerFailed)

\* C3: a tool that raises makes safe_tool_call return, without raising, a non-empty
\* string containing "Error while calling" and the name the tool is registered under.
C3_WrapperNeverPropagates ==
    \A i \in 1..Len(tool_calls) :
        tool_calls[i].threw =>
            /\ ~tool_calls[i].exc
            /\ tool_calls[i].val # <<>>
            /\ Contains(tool_calls[i].val, StripRight(ErrorWhileCalling))
            /\ Contains(tool_calls[i].val, tool_calls[i].tool)

\* C4: when the lowercased rephrased question contains "search in all", the toolset is
\* every registered key and no suggestion was asked of the language model.
C4_SearchInAllSelectsAll ==
    (Ran("Retrieve") /\ Contains(Lower(state["rephrased"]), SearchInAll)) =>
        /\ Range(toolset) = AllKeys
        /\ ~Asked

\* "search in all" after a scoped directive that names one registered tool
C4_Witness ==
    /\ Ran("Retrieve")
    /\ state["rephrased"] = ScopedThenAll
    /\ DirectiveMatches(Lower(state["rephrased"]))
    /\ Range(toolset) = AllKeys

\* the questions "search [only] in A and B ..." over single-word names, with or without
\* a tail, each with the registered names among those it lists
SingleWordNames == {n \in ListedNames : \A i \in 1..Len(n) : IsWord(n[i])}
C5_Cases ==
    {[question |-> pre \o Join(names, AndJoin) \o post,
      expected |-> {Lower(names[i]) : i \in 1..Len(names)} \cap AllKeys] :
        pre \in {SearchInPrefix, SearchOnlyInPrefix},
        names \in SeqsUpTo(SingleWordNames, MaxNames) \ {<<>>},
        post \in {<<>>, AboutBitbucket}}

\* C5: for "search [only] in A and B ..." with single-word names the toolset is exactly
\* the listed names that are registered; unregistered names are dropped and raise
\* nothing, and the language model is not asked.
C5_ScopedAndListExact ==
    Ran("Retrieve") =>
        \A c \in C5_Cases :
            state["rephrased"] = c.question =>
                /\ Range(toolset) = c.expected
                /\ ~Asked
                /\ NoToolThrew => state["retrieved"] # RetrievalError

\* "search only in confluence and GraphQL": both selected, nothing else
C5_Witness ==
    /\ Ran("Retrieve")
    /\ state["rephrased"] = SearchOnlyInPrefix \o KeyConfluence \o AndJoin \o NameGraphQL
    /\ toolset = <<KeyConfluence, KeyGraphql>>

\* the questions "search [only] in" followed by names joined by " and " or by ", ",
\* any registered key among the names
C6_Cases ==
    {[question |-> pre \o Join(names, sep),
      named |-> {Lower(names[i]) : i \in 1..Len(names)} \cap AllKeys] :
        pre \in {SearchInPrefix, SearchOnlyInPrefix},
        names \in NameLists \ {<<>>}, sep \in Joins}

\* C6: the scoped directive selects every registered tool it names, also when the list
\* is comma-separated and when a name is the two-word key "field mapping".
C6_ScopedCommaAndTwoWordNames ==
    Ran("Retrieve") =>
        \A c \in C6_Cases : state["rephrased"] = c.question => c.named \subseteq Range(toolset)

\* C7: once selection is done the toolset is not empty.
C7_ToolsetNeverEmpty == Ran("Retrieve") => toolset # <<>>

\* the question names no registered tool and holds no directive
NoNameNoDirective(q) ==
    /\ \A k \in AllKeys : ~Contains(Lower(q), k)
    /\ ~Contains(Lower(q), SearchInAll)
    /\ ~DirectiveMatches(Lower(q))
\* the suggestion call raised, or what it returned could not be read as a list
SuggestionFailed == SuggestionReply.kind \in {"raise", "unparsable", "scalar"}

C9_Questions ==
    {pre \o Join(names, sep) \o post :
        pre \in {SearchInPrefix, SearchOnlyInPrefix},
        names \in SeqsUpTo(ListedNames \ {n \in ListedNames : InTools(Lower(n))}, MaxNames) \ {<<>>},
        sep \in Joins, post \in {<<>>, AboutBitbucket}}

\* C9: a scoped directive that lists no registered name leaves the toolset empty: no
\* suggestion is asked, no tool is called and retrieved is the empty mapping, also
\* when a registered name occurs elsewhere in the question.
C9_EmptyScopeStaysEmpty ==
    (Ran("Retrieve") /\ state["rephrased"] \in C9_Questions) =>
        /\ toolset = <<>>
        /\ ~Asked
        /\ tool_calls = <<>>
        /\ state["retrieved"] = <<>>

\* "search in jira about bitbucket": bitbucket is registered and is not called
C9_Witness ==
    /\ Ran("Retrieve")
    /\ state["rephrased"] = SearchInPrefix \o NameJira \o AboutBitbucket
    /\ Contains(Lower(state["rephrased"]), KeyBitbucket)
    /\ toolset = <<>>
    /\ state["retrieved"] = <<>>

\* C10: with neither "search in all" nor a scoped directive, a question that mentions
\* registered names selects exactly the registered names that occur in it, each once,
\* and asks no suggestion.
C10_ImplicitSelectsEveryMention ==
    LET lowered == Lower(state["rephrased"])
    IN  (/\ Ran("Retrieve")
         /\ ~Contains(lowered, SearchInAll)
         /\ ~DirectiveMatches(lowered)
         /\ \E k \in AllKeys : Contains(lowered, k)) =>
            /\ Range(toolset) = {k \in AllKeys : Contains(lowered, k)}
            /\ Cardinality(Range(toolset)) = Len(toolset)
            /\ ~Asked

(***************************************************************************)
(* rank_results, called directly.                                          *)
(***************************************************************************)
\* the result rank_results was given for the i-th entry of its ranking
RankedText(i) == DictGet(rank_args.tool_results, ranking[i].tool)
\* the place of the i-th ranked tool among the items of tool_results
InputIndex(i) ==
    CHOOSE k \in 1..Len(rank_args.tool_results) :
        rank_args.tool_results[k][1] = ranking[i].tool
\* "error" in result.lower()
HasError(result) == Contains(Lower(result), WordError)
\* query.lower() in result.lower()
HasQuery(result) == Contains(Lower(result), Lower(rank_args.query))
\* the score of a result before the error penalty: the base score and the match bonus
Unpenalised(result) == Score(rank_args.query, result, 0, match_boost)

\* C11: rank_results returns one (tool, score) entry for each item of tool_results, in
\* descending order of score, and entries of equal score keep the order of the items.
C11_RankedDescendingStable ==
    pc = "return" =>
        /\ Len(ranking) = Len(rank_args.tool_results)
        /\ {ranking[i].tool : i \in 1..Len(ranking)}
              = {rank_args.tool_results[k][1] : k \in 1..Len(rank_args.tool_results)}
        /\ \A i \in 1..Len(ranking) :
              ranking[i].score
                 = Score(rank_args.query, RankedText(i), error_penalty, match_boost)
        /\ \A i, j \in 1..Len(ranking) :
              i < j => /\ ranking[i].score >= ranking[j].score
                       /\ ranking[i].score = ranking[j].score => InputIndex(i) < InputIndex(j)

\* three items, two of them of equal score, returned in another order than they came
C11_Witness ==
    /\ pc = "return"
    /\ Len(ranking) = MaxRanked
    /\ \E i, j \in 1..Len(ranking) : i < j /\ ranking[i].score = ranking[j].score
    /\ \E i, j \in 1..Len(ranking) : i < j /\ ranking[i].score > ranking[j].score
    /\ \E i \in 1..Len(ranking) : InputIndex(i) # i

\* C12: of two results without "error", the one that contains the query (in any case)
\* scores strictly higher than, and is ranked before, the one that does not.
C12_FullMatchOutranksPartial ==
    pc = "return" =>
        \A i, j \in 1..Len(ranking) :
            (/\ ~HasError(RankedText(i)) /\ ~HasError(RankedText(j))
             /\ HasQuery(RankedText(i)) /\ ~HasQuery(RankedText(j)))
            => ranking[i].score > ranking[j].score /\ i < j

\* a result that resembles the query enough to earn a partial bonus came first in
\* tool_results and is ranked after a result that contains the query
C12_Witness ==
    /\ pc = "return"
    /\ \E i, j \in 1..Len(ranking) :
          /\ ~HasError(RankedText(i)) /\ ~HasError(RankedText(j))
          /\ HasQuery(RankedText(i)) /\ ~HasQuery(RankedText(j))
          /\ ranking[j].score = 2
          /\ InputIndex(j) < InputIndex(i)

\* C13: of two results with the same match bonus, the one that contains "error" (in any
\* case) scores exactly error_penalty less than the other and is ranked after it.
C13_ErrorPenaltyExact ==
    pc = "return" =>
        \A i, j \in 1..Len(ranking) :
            (/\ HasError(RankedText(i)) /\ ~HasError(RankedText(j))
             /\ Unpenalised(RankedText(i)) = Unpenalised(RankedText(j)))
            => ranking[i].score = ranking[j].score - error_penalty /\ j < i

\* an upper-case "ERROR" result came first in tool_results and is ranked after a
\* result of the same bonus
C13_Witness ==
    /\ pc = "return"
    /\ \E i, j \in 1..Len(ranking) :
          /\ HasError(RankedText(i)) /\ ~Contains(RankedText(i), WordError)
          /\ ~HasError(RankedText(j))
          /\ Unpenalised(RankedText(i)) = Unpenalised(RankedText(j))
          /\ InputIndex(i) < InputIndex(j)

(***************************************************************************)
(* The message handler.                                                    *)
(***************************************************************************)
IsLabelled(event) == event.author # ""
\* the titles of the messages the client has received, in order
LabelsReceived ==
    LET labelled == SelectSeq(sink, IsLabelled)
    IN  [i \in 1..Len(labelled) |-> labelled[i].author]
TitleIndex(title) == CHOOSE k \in 1..Len(Titles) : Titles[k] = title

\* C14: the client receives the titled blocks in the order Rephrased, Retrieved Info,
\* Answer, Summary and only after the graph has returned; once the graph has returned,
\* the handler does not finish before it has called stream_response for all four
\* titles, whatever failed while an earlier block was displayed.
C14_FourBlocksInOrder ==
    /\ \A i, j \in 1..Len(LabelsReceived) :
          i < j => TitleIndex(LabelsReceived[i]) <= TitleIndex(LabelsReceived[j])
    /\ LabelsReceived # <<>> => Ran("Invoke") /\ DerivedFields \subseteq DOMAIN state
    /\ (pc = "done" /\ Ran("Invoke")) => \A k \in 1..Len(Titles) : Ran(Titles[k])

(***************************************************************************)
(* The Retrieve node.                                                      *)
(***************************************************************************)
\* the score rank_results gives the i-th item of a retrieved dict
ItemScore(items, i) == Score(state["rephrased"], items[i][2], error_penalty, match_boost)
\* the items are one per selected tool, each with a string a safe call of that tool
\* returned, in descending order of score
RankedSelection(items) ==
    /\ {items[i][1] : i \in 1..Len(items)} = Range(toolset)
    /\ \A i, j \in 1..Len(items) : items[i][1] = items[j][1] => i = j
    /\ \A i \in 1..Len(items) :
          \E c \in 1..Len(tool_calls) :
              /\ tool_calls[c].tool = items[i][1]
              /\ ~tool_calls[c].exc
              /\ tool_calls[c].val = items[i][2]
    /\ \A i \in 1..(Len(items) - 1) : ItemScore(items, i) >= ItemScore(items, i + 1)

\* C15: when Retrieve returns without its handler having run, the keys of retrieved are
\* the selected tools, all of them registered, each with the string its safe call
\* returned, and the items are in descending order of score.
C15_RetrievedIsRankedSelection ==
    (pc = "Answer" /\ state["retrieved"] # RetrievalError) =>
        /\ Range(toolset) \subseteq AllKeys
        /\ RankedSelection(state["retrieved"])

\* three or more tools were selected, one of them raised, and the ranking moved a result
\* away from the place its tool has in the toolset
C15_Witness ==
    /\ pc = "Answer"
    /\ state["retrieved"] # RetrievalError
    /\ Len(state["retrieved"]) >= 3
    /\ \E c \in 1..Len(tool_calls) : tool_calls[c].threw
    /\ \E i \in 1..Len(state["retrieved"]) : state["retrieved"][i][1] # toolset[i]
    /\ ItemScore(state["retrieved"], 1) > ItemScore(state["retrieved"], Len(state["retrieved"]))

\* C16: a tool that raises does not suppress the others: whichever of the selected tools
\* raise, retrieved has an item for every selected tool, with the wrapper's error string
\* for a tool that raised and the tool's result for one that did not.
C16_ThrowingToolKeepsSiblings ==
    pc = "Answer" =>
        \A t \in Range(toolset) :
            \E i \in 1..Len(state["retrieved"]), c \in 1..Len(tool_calls) :
                /\ state["retrieved"][i][1] = t
                /\ tool_calls[c].tool = t
                /\ state["retrieved"][i][2]
                      = IF tool_calls[c].threw
                        THEN ErrorWhileCalling \o ToolFunc(t) \o FullStop
                        ELSE CallTool(ToolFunc(t), state["rephrased"])

\* C17: when an exception leaves the safe wrapper and is raised inside Retrieve,
\* retrieved is exactly {"error": "Retrieval failed."}; when Retrieve has returned,
\* retrieved is that dict or the complete ranked dict of the selected tools, never a
\* part of it.
C17_ErrorMappingOrComplete ==
    pc = "Answer" =>
        /\ (\E c \in 1..Len(tool_calls) : tool_calls[c].exc)
              => state["retrieved"] = RetrievalError
        /\ state["retrieved"] = RetrievalError \/ RankedSelection(state["retrieved"])

\* of two or more gathered calls one raised out of the wrapper and another returned its
\* result, and retrieved is the error dict
C17_Witness ==
    /\ pc = "Answer"
    /\ state["retrieved"] = RetrievalError
    /\ \E c, d \in 1..Len(tool_calls) :
          /\ tool_calls[c].exc
          /\ ~tool_calls[d].threw

(***************************************************************************)
(* The fields of the state.                                                *)
(***************************************************************************)
\* the field a node assigns
FieldOf(node) ==
    CASE node = "Rephrase"  -> "rephrased"
      [] node = "Retrieve"  -> "retrieved"
      [] node = "Answer"    -> "answer"
      [] node = "Summarize" -> "summary"

\* the node at pc assigns its field and leaves every other field as it was
WritesOwnField ==
    /\ DOMAIN state' = DOMAIN state \cup {FieldOf(pc)}
    /\ \A k \in DOMAIN state \ {FieldOf(pc)} : state'[k] = state[k]

\* the fields set are the question and the fields of the nodes that have run
FieldsOfNodesRun == DOMAIN state = {"question"} \cup {FieldOf(trace[i]) : i \in 1..Len(trace)}

\* C18: every node writes its own field only, so the question keeps its value through
\* the run, and a field is absent until its node has run and set from then on.
C18_StageWritesOwnField == []FieldsOfNodesRun /\ [][WritesOwnField]_vars

\* a finished run in which the rephrased text differs from the question and the summary
\* is a truncation of the answer
C18_Witness ==
    /\ pc = "END"
    /\ state["rephrased"] # state["question"]
    /\ Len(state["answer"]) > PreviewLen
    /\ state["retrieved"] # RetrievalError

(***************************************************************************)
(* The toolset and the language-model failures.                            *)
(***************************************************************************)
\* C19: within one Retrieve no tool is selected or called twice, also when the scoped
\* directive lists a tool twice or the language model's list repeats a name.
C19_ToolsetHasNoDuplicates ==
    /\ \A i, j \in 1..Len(toolset) : toolset[i] = toolset[j] => i = j
    /\ \A c, d \in 1..Len(tool_calls) : tool_calls[c].tool = tool_calls[d].tool => c = d

\* every call of llm_base.invoke made so far has raised
AllLLMCallsFailed == \A i \in 1..Len(llm_calls) : llm_calls[i].reply = LLMRaise

\* C20: when every language-model call of a run fails, then whatever the question says,
\* Retrieve works on the rephrase placeholder, asks for a suggestion, selects and calls
\* every registered tool, and the run ends with the answer placeholder and its summary.
C20_AllLLMFailuresFallback ==
    AllLLMCallsFailed =>
        /\ Ran("Rephrase") => state["rephrased"] = RephraseFailed
        /\ Ran("Retrieve") =>
              /\ Asked
              /\ toolset = ToolKeys
              /\ [c \in 1..Len(tool_calls) |-> tool_calls[c].tool] = ToolKeys
              /\ \A c \in 1..Len(tool_calls) :
                    ~tool_calls[c].threw =>
                        tool_calls[c].val
                           = CallTool(ToolFunc(tool_calls[c].tool), RephraseFailed)
        /\ pc = "END" =>
              /\ state["answer"] = AnswerFailed
              /\ state["summary"] = summarize_text(AnswerFailed)

\* a finished run on a question scoped to one tool in which all three language-model
\* calls raised
C20_Witness ==
    /\ pc = "END"
    /\ AllLLMCallsFailed
    /\ Len(llm_calls) = 3
    /\ state["question"] = Strip(RawScoped)
    /\ Len(tool_calls) = Len(ToolKeys)
====
